---- MODULE Spec2Model ----
(***************************************************************************)
(* Model of stan/model/indexing/lvalue.hpp (the assign overloads) and of   *)
(* stan/mcmc/mpi_auto_adaptation.hpp (the distributed metric estimator).   *)
(*                                                                         *)
(* The assign overloads are pure functions of (target, index list, value): *)
(* they are operators returning the set of outcomes the build can produce  *)
(* (one outcome unless the call has undefined behaviour), and SpecAssign   *)
(* applies each of them once to a target drawn from bounded sets.          *)
(* The overloads never inspect element values, so targets and values are   *)
(* filled with pairwise distinct numbers: every cell names its origin.     *)
(*                                                                         *)
(* The estimator is a state machine over the members of the class, one     *)
(* copy per modelled chain process: SpecEst and SpecEstBuffer run one      *)
(* process against chains that only enter the collectives, SpecEstLive     *)
(* adds the fairness of the polling loop, SpecPair runs two processes.     *)
(* SpecPower runs internal::power_method on a sequence of estimates.       *)
(***************************************************************************)
EXTENDS Integers, Sequences, FiniteSets, TLC

\* the target of an assign call and the record of the call made on it
VARIABLES tgt, call
\* mpi_auto_adaptation: the constructor's arguments, with the ranks of the
\* chain processes that are modelled in full (the others only post)
VARIABLES params
\* the communicator: per chain, the draws it has posted with MPI_Iallgather
VARIABLES posted
\* the members of each modelled process's estimator
VARIABLES draw_req_counter_, draws_collected_counter_, reqs, draws, Y_,
          last_qs_, is_diagonal_, covar
\* where each modelled process is (idle, polling in collect_draws, crashed),
\* the locals of the running call, what the last call was, what held when
\* it was entered and what learn_metric computed, and whether the process
\* has accessed memory out of bounds
VARIABLES pc, frame, ev, entry, lm, ub

\* internal::power_method: its arguments, locals and position
VARIABLES pm

assignvars == <<tgt, call>>
pmvars == <<pm>>
mpivars == <<params, posted, draw_req_counter_, draws_collected_counter_, reqs,
             draws, Y_, last_qs_, is_diagonal_, covar, pc, frame, ev, entry,
             lm, ub>>
vars == <<assignvars, mpivars, pmvars>>

(* ------------------------------ bounds --------------------------------- *)
\* longest Eigen vector target
MaxLen == 5
\* most rows / columns of a matrix target
MaxDim == 3
\* longest multi-index position list on a vector
MaxIdx == 3
\* longest multi-index position list on a matrix dimension or an array
MaxMIdx == 2
\* longest std::vector (array) target
MaxArr == 2
\* most add_sample calls of a chain in one run (params.posts)
MaxPosts == 6
\* the same in the runs of two modelled chains
MaxPairPosts == 4
\* largest window index passed to learn_metric
MaxWin == 2

(* ------------------------------ helpers -------------------------------- *)
Min2(a, b) == IF a <= b THEN a ELSE b
Abs(a) == IF a >= 0 THEN a ELSE -a

\* all sequences over S of length 0..n
SeqsUpTo(S, n) == UNION {[1..k -> S] : k \in 0..n}

\* an outcome of one assign call: how it ended, the target afterwards, and
\* whether it accessed memory outside the target (undefined behaviour)
Ok(x) == [st |-> "ok", x |-> x, ub |-> FALSE]
Throw(e, x) == [st |-> e, x |-> x, ub |-> FALSE]
\* Eigen's index assertion (builds without NDEBUG) stops the process
Abort(x) == [st |-> "abort", x |-> x, ub |-> TRUE]
\* builds with NDEBUG carry on after the out-of-bounds access
Overrun(x) == [st |-> "ok", x |-> x, ub |-> TRUE]

(* ------------------------------ indexes -------------------------------- *)
index_uni(n) == [tag |-> "uni", n_ |-> n]
index_multi(ns) == [tag |-> "multi", ns_ |-> ns]
index_omni == [tag |-> "omni"]
index_min_max(min, max) == [tag |-> "min_max", min_ |-> min, max_ |-> max]

\* index_min_max::positive_idx_ : the range runs upwards
positive_idx_(idx) == idx.min_ <= idx.max_

\* number of positions an index resolves to on a dimension of the given size
rvalue_index_size(idx, size) ==
  CASE idx.tag = "multi" -> Len(idx.ns_)
    [] idx.tag = "omni" -> size
    [] idx.tag = "min_max" -> Abs(idx.max_ - idx.min_) + 1

\* the n-th (from 0) position an index resolves to
rvalue_at(n, idx) ==
  CASE idx.tag = "multi" -> idx.ns_[n + 1]
    [] idx.tag = "omni" -> n + 1
    [] idx.tag = "min_max" ->
         IF positive_idx_(idx) THEN idx.min_ + n ELSE idx.min_ - n

\* math::check_range passes: 1 <= index <= max
check_range(max, index) == index >= 1 /\ index < max + 1

\* math::check_size_match passes
check_size_match(i, j) == i = j

(* --------------------------- Eigen vectors ----------------------------- *)
\* a vector is a sequence; Eigen addresses it from 0

\* x.coeffRef(i) = v for each <<i, v>> of ws in turn; a write outside the
\* storage lands in foreign memory and leaves the vector as it is
RECURSIVE write_elems(_, _)
write_elems(x, ws) ==
  IF ws = <<>> THEN x
  ELSE LET i == Head(ws)[1]
           v == Head(ws)[2]
           x1 == IF i >= 0 /\ i < Len(x) THEN [x EXCEPT ![i + 1] = v] ELSE x
       IN  write_elems(x1, Tail(ws))

\* v.reverse()
reverse(v) == [k \in 1..Len(v) |-> v[Len(v) + 1 - k]]

\* x.segment(start, n) = v, with Len(v) = n
segment_assign(x, start, n, v) ==
  LET ws == [k \in 1..n |-> <<start + k - 1, v[k]>>]
  IN  IF start >= 0 /\ n >= 0 /\ start + n <= Len(x)
      THEN {Ok(write_elems(x, ws))}
      ELSE {Abort(x), Overrun(write_elems(x, ws))}

\* (mutant) vec[uni] that takes the index as counted from 0
assign_vec_uni_mut(x, idxs, y) ==
  IF ~check_range(Len(x), idxs[1].n_) THEN {Throw("OutOfRange", x)}
  ELSE {Ok(write_elems(x, <<<<idxs[1].n_, y>>>>))}

\* vec[uni] <- scalar
assign_vec_uni(x, idxs, y) ==
  IF ~check_range(Len(x), idxs[1].n_) THEN {Throw("OutOfRange", x)}
  ELSE {Ok(write_elems(x, <<<<idxs[1].n_ - 1, y>>>>))}

\* (mutant) the loop of vec[multi] with the range check off by one
RECURSIVE vec_multi_loop_mut(_, _, _, _)
vec_multi_loop_mut(x, idx, y, n) ==
  IF n >= Len(y) THEN Ok(x)
  ELSE LET i == rvalue_at(n, idx)
       IN  IF ~check_range(Len(x) + 1, i) THEN Throw("OutOfRange", x)
           ELSE vec_multi_loop_mut(write_elems(x, <<<<i - 1, y[n + 1]>>>>),
                                   idx, y, n + 1)

\* the loop of vec[multi] <- vec, from iteration n
RECURSIVE vec_multi_loop(_, _, _, _)
vec_multi_loop(x, idx, y, n) ==
  IF n >= Len(y) THEN Ok(x)
  ELSE LET i == rvalue_at(n, idx)
       IN  IF ~check_range(Len(x), i) THEN Throw("OutOfRange", x)
           ELSE vec_multi_loop(write_elems(x, <<<<i - 1, y[n + 1]>>>>),
                               idx, y, n + 1)

\* (mutant) vec[multi] that checks the sizes after the loop
assign_vec_multi_mut(x, idxs, y) ==
  LET o == vec_multi_loop(x, idxs[1], [k \in 1..Min2(Len(y), rvalue_index_size(idxs[1], Len(x))) |-> y[k]], 0)
  IN  IF o.st # "ok" THEN {o}
      ELSE IF ~check_size_match(rvalue_index_size(idxs[1], Len(x)), Len(y))
      THEN {Throw("SizeMismatch", o.x)}
      ELSE {o}

\* vec[multi] <- vec
assign_vec_multi(x, idxs, y) ==
  IF ~check_size_match(rvalue_index_size(idxs[1], Len(x)), Len(y))
  THEN {Throw("SizeMismatch", x)}
  ELSE {vec_multi_loop(x, idxs[1], y, 0)}

\* vec[min_max] <- vec
assign_vec_min_max(x, idxs, y) ==
  LET head_ == idxs[1] IN
  IF ~check_range(Len(x), head_.min_) THEN {Throw("OutOfRange", x)}
  ELSE IF ~check_range(Len(x), head_.max_) THEN {Throw("OutOfRange", x)}
  ELSE IF positive_idx_(head_)
  THEN IF ~check_size_match(head_.max_ - 1, Len(y))
       THEN {Throw("SizeMismatch", x)}
       ELSE segment_assign(x, head_.min_ - 1, head_.max_ - 1, y)
  ELSE IF ~check_size_match(head_.min_ - 1, Len(y))
       THEN {Throw("SizeMismatch", x)}
       ELSE segment_assign(x, head_.max_ - 1, head_.min_ - 1, reverse(y))


(* --------------------------- Eigen matrices ---------------------------- *)
\* a matrix is [r, c, m]: m maps <<row, column>> (from 1) to the cell.
\* Eigen addresses it from 0 and stores it column by column.

\* x.coeffRef(i, j) = v for each <<i, j, v>> of ws in turn. A write outside
\* the matrix goes to the address i + j * rows of the storage: it lands in
\* another cell of the matrix or in foreign memory
RECURSIVE write_cells(_, _)
write_cells(x, ws) ==
  IF ws = <<>> THEN x
  ELSE LET i == Head(ws)[1]
           j == Head(ws)[2]
           v == Head(ws)[3]
           o == i + j * x.r
           x1 == IF i >= 0 /\ i < x.r /\ j >= 0 /\ j < x.c
                 THEN [x EXCEPT !.m[<<i + 1, j + 1>>] = v]
                 ELSE IF o >= 0 /\ o < x.r * x.c
                 THEN [x EXCEPT !.m[<<(o % x.r) + 1, (o \div x.r) + 1>>] = v]
                 ELSE x
       IN  write_cells(x1, Tail(ws))

\* y.rowwise().reverse(): every row reversed, so the columns swap ends
rowwise_reverse(y) ==
  [y EXCEPT !.m = [p \in DOMAIN y.m |-> y.m[<<p[1], y.c + 1 - p[2]>>]]]
\* (mutant) the row-wise reversal taken for the column-wise one
colwise_reverse_mut(y) == rowwise_reverse(y)
\* y.colwise().reverse(): every column reversed, so the rows swap ends
colwise_reverse(y) ==
  [y EXCEPT !.m = [p \in DOMAIN y.m |-> y.m[<<y.r + 1 - p[1], p[2]>>]]]
\* y.reverse(): both
mat_reverse(y) ==
  [y EXCEPT !.m = [p \in DOMAIN y.m |-> y.m[<<y.r + 1 - p[1], y.c + 1 - p[2]>>]]]

\* x.row(i) = v
row_assign(x, i, v) ==
  LET ws == [j \in 1..Len(v) |-> <<i, j - 1, v[j]>>]
  IN  IF i >= 0 /\ i < x.r THEN {Ok(write_cells(x, ws))}
      ELSE {Abort(x), Overrun(write_cells(x, ws))}

\* x.col(j) = v
col_assign(x, j, v) ==
  LET ws == [i \in 1..Len(v) |-> <<i - 1, j, v[i]>>]
  IN  IF j >= 0 /\ j < x.c THEN {Ok(write_cells(x, ws))}
      ELSE {Abort(x), Overrun(write_cells(x, ws))}

\* x.block(startRow, startCol, nr, nc) = v, with v of shape nr x nc; the
\* cells are copied column by column
block_assign(x, startRow, startCol, nr, nc, v) ==
  LET ws == [k \in 1..(nr * nc) |->
               LET i == (k - 1) % nr
                   j == (k - 1) \div nr
               IN  <<startRow + i, startCol + j, v.m[<<i + 1, j + 1>>]>>]
  IN  IF /\ startRow >= 0 /\ nr >= 0 /\ startRow + nr <= x.r
         /\ startCol >= 0 /\ nc >= 0 /\ startCol + nc <= x.c
      THEN {Ok(write_cells(x, ws))}
      ELSE {Abort(x), Overrun(write_cells(x, ws))}

\* mat[uni] <- rowvec
assign_mat_uni(x, idxs, y) ==
  IF ~check_size_match(x.c, Len(y)) THEN {Throw("SizeMismatch", x)}
  ELSE IF ~check_range(x.r, idxs[1].n_) THEN {Throw("OutOfRange", x)}
  ELSE row_assign(x, idxs[1].n_ - 1, y)

\* mat[omni, uni] <- colvec
assign_mat_omni_uni(x, idxs, y) ==
  IF ~check_size_match(x.r, Len(y)) THEN {Throw("SizeMismatch", x)}
  ELSE IF ~check_range(x.c, idxs[2].n_) THEN {Throw("OutOfRange", x)}
  ELSE col_assign(x, idxs[2].n_ - 1, y)

\* mat[uni, omni] <- rowvec
assign_mat_uni_omni(x, idxs, y) ==
  IF ~check_size_match(x.c, Len(y)) THEN {Throw("SizeMismatch", x)}
  ELSE row_assign(x, idxs[1].n_ - 1, y)

\* the loop of mat[multi] <- mat, from iteration i
RECURSIVE mat_multi_loop(_, _, _, _)
mat_multi_loop(x, idx, y, i) ==
  IF i >= y.r THEN Ok(x)
  ELSE LET m == rvalue_at(i, idx)
       IN  IF ~check_range(x.r, m) THEN Throw("OutOfRange", x)
           ELSE mat_multi_loop(
                  write_cells(x, [j \in 1..y.c |-> <<m - 1, j - 1, y.m[<<i + 1, j>>]>>]),
                  idx, y, i + 1)

\* mat[multi] <- mat
assign_mat_multi(x, idxs, y) ==
  LET x_idx_rows == rvalue_index_size(idxs[1], x.r) IN
  IF ~check_size_match(x_idx_rows, y.r) THEN {Throw("SizeMismatch", x)}
  ELSE IF ~check_size_match(x.c, y.c) THEN {Throw("SizeMismatch", x)}
  ELSE {mat_multi_loop(x, idxs[1], y, 0)}

\* mat[min_max, min_max] <- mat
assign_mat_min_max_min_max(x, idxs, y) ==
  LET head_ == idxs[1]
      tail_head_ == idxs[2]
  IN
  IF positive_idx_(head_)
  THEN IF positive_idx_(tail_head_)
       THEN LET row_size == head_.max_ - (head_.min_ - 1)
                col_size == tail_head_.max_ - (tail_head_.min_ - 1)
            IN  IF ~check_size_match(row_size, y.r) THEN {Throw("SizeMismatch", x)}
                ELSE IF ~check_size_match(col_size, y.c) THEN {Throw("SizeMismatch", x)}
                ELSE block_assign(x, head_.min_ - 1, tail_head_.min_ - 1,
                                  row_size, col_size, y)
       ELSE LET row_size == head_.max_ - (head_.min_ - 1)
                col_size == tail_head_.min_ - (tail_head_.max_ - 1)
            IN  IF ~check_size_match(row_size, y.r) THEN {Throw("SizeMismatch", x)}
                ELSE IF ~check_size_match(col_size, y.c) THEN {Throw("SizeMismatch", x)}
                \* block(..).rowwise().reverse() = y: the reversed view of the
                \* block receives y, so the block receives y with rows reversed
                ELSE block_assign(x, head_.min_ - 1, tail_head_.max_ - 1,
                                  row_size, col_size, rowwise_reverse(y))
  ELSE IF positive_idx_(tail_head_)
       THEN LET row_size == head_.min_ - (head_.max_ - 1)
                col_size == tail_head_.max_ - (tail_head_.min_ - 1)
            IN  IF ~check_size_match(row_size, y.r) THEN {Throw("SizeMismatch", x)}
                ELSE IF ~check_size_match(col_size, y.c) THEN {Throw("SizeMismatch", x)}
                ELSE block_assign(x, head_.max_ - 1, tail_head_.min_ - 1,
                                  row_size, col_size, colwise_reverse(y))
       ELSE LET row_size == head_.min_ - (head_.max_ - 1)
                col_size == tail_head_.min_ - (tail_head_.max_ - 1)
            IN  IF ~check_size_match(row_size, y.r) THEN {Throw("SizeMismatch", x)}
                ELSE IF ~check_size_match(col_size, y.c) THEN {Throw("SizeMismatch", x)}
                ELSE block_assign(x, head_.max_ - 1, tail_head_.max_ - 1,
                                  row_size, col_size, mat_reverse(y))

\* mat[uni, uni] <- scalar
assign_mat_uni_uni(x, idxs, y) ==
  LET m == idxs[1].n_
      n == idxs[2].n_
  IN  IF ~check_range(x.r, m) THEN {Throw("OutOfRange", x)}
      ELSE IF ~check_range(x.c, n) THEN {Throw("OutOfRange", x)}
      ELSE {Ok(write_cells(x, <<<<m - 1, n - 1, y>>>>))}

\* the loop of mat[uni, multi] <- rowvec, from iteration i
RECURSIVE mat_uni_multi_loop(_, _, _, _, _)
mat_uni_multi_loop(x, m, idx, y, i) ==
  IF i >= Len(y) THEN Ok(x)
  ELSE LET n == rvalue_at(i, idx)
       IN  IF ~check_range(x.c, n) THEN Throw("OutOfRange", x)
           ELSE mat_uni_multi_loop(write_cells(x, <<<<m - 1, n - 1, y[i + 1]>>>>),
                                   m, idx, y, i + 1)

\* mat[uni, multi] <- rowvec
assign_mat_uni_multi(x, idxs, y) ==
  LET x_idxs_cols == rvalue_index_size(idxs[2], x.c)
      m == idxs[1].n_
  IN  IF ~check_size_match(x_idxs_cols, Len(y)) THEN {Throw("SizeMismatch", x)}
      ELSE IF ~check_range(x.r, m) THEN {Throw("OutOfRange", x)}
      ELSE {mat_uni_multi_loop(x, m, idxs[2], y, 0)}

\* the loop of mat[multi, uni] <- vec, from iteration i
RECURSIVE mat_multi_uni_loop(_, _, _, _, _)
mat_multi_uni_loop(x, idx, n, y, i) ==
  IF i >= Len(y) THEN Ok(x)
  ELSE LET m == rvalue_at(i, idx)
       IN  IF ~check_range(x.r, m) THEN Throw("OutOfRange", x)
           ELSE mat_multi_uni_loop(write_cells(x, <<<<m - 1, n - 1, y[i + 1]>>>>),
                                   idx, n, y, i + 1)

\* mat[multi, uni] <- vec
assign_mat_multi_uni(x, idxs, y) ==
  LET x_idxs_rows == rvalue_index_size(idxs[1], x.r)
      n == idxs[2].n_
  IN  IF ~check_size_match(x_idxs_rows, Len(y)) THEN {Throw("SizeMismatch", x)}
      ELSE IF ~check_range(x.c, n) THEN {Throw("OutOfRange", x)}
      ELSE {mat_multi_uni_loop(x, idxs[1], n, y, 0)}

\* the inner loop of mat[multi, multi] <- mat: column j, from row i
RECURSIVE mat_multi_multi_inner_mut(_, _, _, _, _, _)
mat_multi_multi_inner_mut(x, idxs, y, j, n, i) ==
  IF i >= y.r THEN Ok(x)
  ELSE LET m == rvalue_at(i, idxs[1])
           seen == \E k \in 0..(i - 1) : rvalue_at(k, idxs[1]) = m
       IN  IF ~check_range(x.r, m) THEN Throw("OutOfRange", x)
           ELSE mat_multi_multi_inner_mut(
                  IF seen THEN x
                  ELSE write_cells(x, <<<<m - 1, n - 1, y.m[<<i + 1, j + 1>>]>>>>),
                  idxs, y, j, n, i + 1)
RECURSIVE mat_multi_multi_inner(_, _, _, _, _, _)
mat_multi_multi_inner(x, idxs, y, j, n, i) ==
  IF i >= y.r THEN Ok(x)
  ELSE LET m == rvalue_at(i, idxs[1])
       IN  IF ~check_range(x.r, m) THEN Throw("OutOfRange", x)
           ELSE mat_multi_multi_inner(
                  write_cells(x, <<<<m - 1, n - 1, y.m[<<i + 1, j + 1>>]>>>>),
                  idxs, y, j, n, i + 1)

\* the outer loop of mat[multi, multi] <- mat, from column j
RECURSIVE mat_multi_multi_outer(_, _, _, _)
mat_multi_multi_outer(x, idxs, y, j) ==
  IF j >= y.c THEN Ok(x)
  ELSE LET n == rvalue_at(j, idxs[2])
       IN  IF ~check_range(x.c, n) THEN Throw("OutOfRange", x)
           ELSE LET o == mat_multi_multi_inner(x, idxs, y, j, n, 0)
                IN  IF o.st # "ok" THEN o
                    ELSE mat_multi_multi_outer(o.x, idxs, y, j + 1)

\* mat[multi, multi] <- mat
assign_mat_multi_multi(x, idxs, y) ==
  LET x_idxs_rows == rvalue_index_size(idxs[1], x.r)
      x_idxs_cols == rvalue_index_size(idxs[2], x.c)
  IN  IF ~check_size_match(x_idxs_rows, y.r) THEN {Throw("SizeMismatch", x)}
      ELSE IF ~check_size_match(x_idxs_cols, y.c) THEN {Throw("SizeMismatch", x)}
      ELSE {mat_multi_multi_outer(x, idxs, y, 0)}

(* ------------------------ arrays (std::vector) ------------------------- *)
\* an array of rank k is a sequence of arrays of rank k - 1; rank 0 is a
\* scalar. The index list is a sequence: idxs.head_ is Head(idxs) and
\* idxs.tail_ is Tail(idxs).

\* a value-initialised element of the given rank
default_value(rank) == IF rank = 0 THEN 0 ELSE <<>>

\* x.resize(n) on an array of the given rank
resize(x, n, rank) ==
  [i \in 1..n |-> IF i <= Len(x) THEN x[i] ELSE default_value(rank - 1)]

\* assign with the empty index list: x = y for a scalar, and for a
\* std::vector resize to y's length and assign element by element
assign_nil_mut(x, y, rank) ==
  IF rank = 0 THEN y
  ELSE [i \in 1..Len(x) |-> IF i <= Len(y) THEN y[i] ELSE x[i]]
RECURSIVE assign_nil(_, _, _)
assign_nil(x, y, rank) ==
  IF rank = 0 THEN y
  ELSE LET x1 == resize(x, Len(y), rank)
       IN  [i \in 1..Len(y) |-> assign_nil(x1[i], y[i], rank - 1)]

RECURSIVE assign_std(_, _, _, _)
RECURSIVE std_multi_loop(_, _, _, _, _)

\* the loop of array[multi | L] <- y, from iteration n
std_multi_loop(x, idxs, y, rank, n) ==
  IF n >= Len(y) THEN Ok(x)
  ELSE LET i == rvalue_at(n, Head(idxs))
       IN  IF ~check_range(Len(x), i) THEN Throw("OutOfRange", x)
           ELSE LET o == assign_std(x[i], Tail(idxs), y[n + 1], rank - 1)
                    x1 == [x EXCEPT ![i] = o.x]
                IN  IF o.st # "ok" THEN [o EXCEPT !.x = x1]
                    ELSE std_multi_loop(x1, idxs, y, rank, n + 1)

\* assign on a std::vector of the given rank: nil, array[uni | L] and
\* array[multi | L]
assign_std(x, idxs, y, rank) ==
  IF idxs = <<>> THEN Ok(assign_nil(x, y, rank))
  ELSE IF Head(idxs).tag = "uni"
  THEN IF ~check_range(Len(x), Head(idxs).n_) THEN Throw("OutOfRange", x)
       ELSE LET o == assign_std(x[Head(idxs).n_], Tail(idxs), y, rank - 1)
            IN  [o EXCEPT !.x = [x EXCEPT ![Head(idxs).n_] = o.x]]
  ELSE IF ~check_size_match(rvalue_index_size(Head(idxs), Len(x)), Len(y))
       THEN Throw("SizeMismatch", x)
       ELSE std_multi_loop(x, idxs, y, rank, 0)

\* assign on an array of arrays of scalars
assign_array(x, idxs, y) == {assign_std(x, idxs, y, 2)}

(* ------------------------- inputs of SpecAssign ------------------------ *)
\* the vector [1, 2, ..., n]
VecOf(n) == [k \in 1..n |-> k]
\* the matrix whose cell (i, j) holds 10 i + j
MatOf(R, C) ==
  [r |-> R, c |-> C, m |-> [p \in (1..R) \X (1..C) |-> 10 * p[1] + p[2]]]
\* the array of a rows of two elements, element (i, j) holding 10 i + j
ArrOf(a) == [i \in 1..a |-> [j \in 1..2 |-> 10 * i + j]]

\* the values: the vector [10, 20, ..., 10 n], a scalar found in no target
\* and no other value, the matrix whose cell (i, j) holds 100 i + 10 j, and
\* the same as an array of rows
ValOf(n) == [k \in 1..n |-> 10 * k]
Scalar == ValOf(1)[1] - 1
YMat(R, C) ==
  [r |-> R, c |-> C, m |-> [p \in (1..R) \X (1..C) |-> 100 * p[1] + 10 * p[2]]]
YRows(n, l) == [i \in 1..n |-> [j \in 1..l |-> 100 * i + 10 * j]]

VecTargets == {[kind |-> "vec", v |-> VecOf(n)] : n \in 0..MaxLen}
MatTargets ==
  {[kind |-> "mat", v |-> MatOf(R, C)] : R \in 1..MaxDim, C \in 1..MaxDim}
ArrTargets == {[kind |-> "arr", v |-> ArrOf(a)] : a \in 0..MaxArr}

\* single positions offered to a vector, a matrix dimension, an array
VecPos == -1..(MaxLen + 1)
MatPos == -1..(MaxDim + 1)
ArrPos == -1..(MaxArr + 1)

\* the multi and range indexes offered to a dimension of the given size
MultiOn(size, maxlen) ==
  {index_multi(ns) : ns \in SeqsUpTo(0..(size + 1), maxlen)}
RangeOn(size) ==
  {index_min_max(a, b) : a \in 0..(size + 1), b \in 0..(size + 1)}

(* ------------------------------ SpecAssign ----------------------------- *)
\* power_method is not called
NoPower == [pc |-> "none"]

\* no estimator is constructed
NoEstimator ==
  /\ params = [num_chains |-> 0, num_iterations |-> 0, window_size |-> 0,
               init_buffer |-> 0, local |-> {}, posts |-> 0]
  /\ posted = <<>>
  /\ draw_req_counter_ = <<>>
  /\ draws_collected_counter_ = <<>>
  /\ reqs = <<>>
  /\ draws = <<>>
  /\ Y_ = <<>>
  /\ last_qs_ = <<>>
  /\ is_diagonal_ = <<>>
  /\ covar = <<>>
  /\ pc = <<>>
  /\ frame = <<>>
  /\ ev = <<>>
  /\ entry = <<>>
  /\ lm = <<>>
  /\ ub = <<>>

InitAssign ==
  /\ \/ tgt \in VecTargets
     \/ tgt \in MatTargets
     \/ tgt \in ArrTargets
  /\ call = [op |-> "none"]
  /\ NoEstimator
  /\ pm = NoPower

\* one call of an overload: op names it, idxs and y are its arguments,
\* outs the outcomes its body can have
Apply(op, kind, idxs, y, outs) ==
  /\ call.op = "none"
  /\ tgt.kind = kind
  /\ \E o \in outs :
       /\ tgt' = [tgt EXCEPT !.v = o.x]
       /\ call' = [op |-> op, idxs |-> idxs, y |-> y, pre |-> tgt.v,
                   st |-> o.st, ub |-> o.ub]
  /\ UNCHANGED <<mpivars, pmvars>>

VecUni ==
  /\ call.op = "none"
  /\ tgt.kind = "vec"
  /\ \E n \in VecPos :
       LET idxs == <<index_uni(n)>>
       IN  Apply("vec[uni]", "vec", idxs, Scalar,
                 assign_vec_uni(tgt.v, idxs, Scalar))

VecMulti ==
  /\ call.op = "none"
  /\ tgt.kind = "vec"
  /\ \E i \in MultiOn(Len(tgt.v), MaxIdx) \cup {index_omni} :
       \E ly \in {rvalue_index_size(i, Len(tgt.v)) + d : d \in {-1, 0, 1}} \cap Nat :
         Apply("vec[multi]", "vec", <<i>>, ValOf(ly),
               assign_vec_multi(tgt.v, <<i>>, ValOf(ly)))

VecMinMax ==
  /\ call.op = "none"
  /\ tgt.kind = "vec"
  /\ \E min \in 0..(MaxLen + 1), max \in 0..(MaxLen + 1), ly \in 0..MaxLen :
       LET idxs == <<index_min_max(min, max)>>
       IN  Apply("vec[min_max]", "vec", idxs, ValOf(ly),
                 assign_vec_min_max(tgt.v, idxs, ValOf(ly)))

MatUni ==
  /\ call.op = "none"
  /\ tgt.kind = "mat"
  /\ \E n \in MatPos, ly \in 1..(MaxDim + 1) :
       LET idxs == <<index_uni(n)>>
       IN  Apply("mat[uni]", "mat", idxs, ValOf(ly),
                 assign_mat_uni(tgt.v, idxs, ValOf(ly)))

MatOmniUni ==
  /\ call.op = "none"
  /\ tgt.kind = "mat"
  /\ \E n \in MatPos, ly \in 1..(MaxDim + 1) :
       LET idxs == <<index_omni, index_uni(n)>>
       IN  Apply("mat[omni,uni]", "mat", idxs, ValOf(ly),
                 assign_mat_omni_uni(tgt.v, idxs, ValOf(ly)))

MatUniOmni ==
  /\ call.op = "none"
  /\ tgt.kind = "mat"
  /\ \E n \in MatPos, ly \in 1..(MaxDim + 1) :
       LET idxs == <<index_uni(n), index_omni>>
       IN  Apply("mat[uni,omni]", "mat", idxs, ValOf(ly),
                 assign_mat_uni_omni(tgt.v, idxs, ValOf(ly)))

MatUniUni ==
  /\ call.op = "none"
  /\ tgt.kind = "mat"
  /\ \E m \in MatPos, n \in MatPos :
       LET idxs == <<index_uni(m), index_uni(n)>>
       IN  Apply("mat[uni,uni]", "mat", idxs, Scalar,
                 assign_mat_uni_uni(tgt.v, idxs, Scalar))

MatMulti ==
  /\ call.op = "none"
  /\ tgt.kind = "mat"
  /\ \E i \in MultiOn(tgt.v.r, MaxMIdx) \cup RangeOn(tgt.v.r) \cup {index_omni} :
       \E yr \in {rvalue_index_size(i, tgt.v.r) + d : d \in {0, 1}},
          yc \in {tgt.v.c, tgt.v.c + 1} :
         Apply("mat[multi]", "mat", <<i>>, YMat(yr, yc),
               assign_mat_multi(tgt.v, <<i>>, YMat(yr, yc)))

MatMinMaxMinMax ==
  /\ call.op = "none"
  /\ tgt.kind = "mat"
  /\ \E i1 \in RangeOn(MaxDim), i2 \in RangeOn(MaxDim) :
       \E yr \in {rvalue_index_size(i1, tgt.v.r) + d : d \in {0, 1}},
          yc \in {rvalue_index_size(i2, tgt.v.c) + d : d \in {0, 1}} :
         Apply("mat[min_max,min_max]", "mat", <<i1, i2>>, YMat(yr, yc),
               assign_mat_min_max_min_max(tgt.v, <<i1, i2>>, YMat(yr, yc)))

MatUniMulti ==
  /\ call.op = "none"
  /\ tgt.kind = "mat"
  /\ \E m \in MatPos, i \in MultiOn(tgt.v.c, MaxMIdx) \cup RangeOn(tgt.v.c) :
       \E ly \in {rvalue_index_size(i, tgt.v.c) + d : d \in {0, 1}} :
         Apply("mat[uni,multi]", "mat", <<index_uni(m), i>>, ValOf(ly),
               assign_mat_uni_multi(tgt.v, <<index_uni(m), i>>, ValOf(ly)))

MatMultiUni ==
  /\ call.op = "none"
  /\ tgt.kind = "mat"
  /\ \E i \in MultiOn(tgt.v.r, MaxMIdx) \cup RangeOn(tgt.v.r), n \in MatPos :
       \E ly \in {rvalue_index_size(i, tgt.v.r) + d : d \in {0, 1}} :
         Apply("mat[multi,uni]", "mat", <<i, index_uni(n)>>, ValOf(ly),
               assign_mat_multi_uni(tgt.v, <<i, index_uni(n)>>, ValOf(ly)))

MatMultiMulti ==
  /\ call.op = "none"
  /\ tgt.kind = "mat"
  /\ \E i1 \in MultiOn(tgt.v.r, MaxMIdx) \cup {index_omni},
        i2 \in MultiOn(tgt.v.c, MaxMIdx) \cup {index_omni} :
       \E d \in {<<0, 0>>, <<1, 0>>, <<0, 1>>} :
         LET y == YMat(rvalue_index_size(i1, tgt.v.r) + d[1],
                       rvalue_index_size(i2, tgt.v.c) + d[2])
         IN  Apply("mat[multi,multi]", "mat", <<i1, i2>>, y,
                   assign_mat_multi_multi(tgt.v, <<i1, i2>>, y))

\* array[uni | L] with L empty, [uni] and [multi]
ArrUni ==
  /\ call.op = "none"
  /\ tgt.kind = "arr"
  /\ \E n \in ArrPos :
       \/ \E ly \in 0..3 :
            Apply("arr[uni]", "arr", <<index_uni(n)>>, ValOf(ly),
                  assign_array(tgt.v, <<index_uni(n)>>, ValOf(ly)))
       \/ \E j \in -1..3 :
            Apply("arr[uni,uni]", "arr", <<index_uni(n), index_uni(j)>>, Scalar,
                  assign_array(tgt.v, <<index_uni(n), index_uni(j)>>, Scalar))
       \/ \E i \in MultiOn(2, MaxMIdx) \cup RangeOn(2) :
            \E ly \in {rvalue_index_size(i, 2) + d : d \in {0, 1}} :
              Apply("arr[uni,multi]", "arr", <<index_uni(n), i>>, ValOf(ly),
                    assign_array(tgt.v, <<index_uni(n), i>>, ValOf(ly)))

\* array[multi | L] with L empty, [uni] and [multi]
\* assign(x, nil_index_list(), y) on an array of arrays
ArrNil ==
  /\ call.op = "none"
  /\ tgt.kind = "arr"
  /\ \E n \in 0..(MaxArr + 1), l \in 0..3 :
       Apply("arr[nil]", "arr", <<>>, YRows(n, l),
             assign_array(tgt.v, <<>>, YRows(n, l)))

ArrMulti ==
  /\ call.op = "none"
  /\ tgt.kind = "arr"
  /\ \E i \in MultiOn(Len(tgt.v), MaxMIdx) \cup RangeOn(Len(tgt.v)) \cup {index_omni} :
       \E ly \in {rvalue_index_size(i, Len(tgt.v)) + d : d \in {0, 1}} :
         \/ \E l \in 1..3 :
              Apply("arr[multi]", "arr", <<i>>, YRows(ly, l),
                    assign_array(tgt.v, <<i>>, YRows(ly, l)))
         \/ \E j \in -1..3 :
              Apply("arr[multi,uni]", "arr", <<i, index_uni(j)>>, ValOf(ly),
                    assign_array(tgt.v, <<i, index_uni(j)>>, ValOf(ly)))
         \/ \E i2 \in MultiOn(2, MaxMIdx) :
              \E l \in {Len(i2.ns_), Len(i2.ns_) + 1} :
                Apply("arr[multi,multi]", "arr", <<i, i2>>, YRows(ly, l),
                      assign_array(tgt.v, <<i, i2>>, YRows(ly, l)))

NextAssign ==
  \/ VecUni
  \/ VecMulti
  \/ VecMinMax
  \/ MatUni
  \/ MatOmniUni
  \/ MatUniOmni
  \/ MatUniUni
  \/ MatMulti
  \/ MatMinMaxMinMax
  \/ MatUniMulti
  \/ MatMultiUni
  \/ MatMultiMulti
  \/ ArrNil
  \/ ArrUni
  \/ ArrMulti

SpecAssign == InitAssign /\ [][NextAssign]_vars

(* ======================= claims on the assign overloads ================ *)
\* the positions an index names on a dimension of the given size, in order
Positions(idx, size) ==
  CASE idx.tag = "multi" -> idx.ns_
    [] idx.tag = "omni" -> [k \in 1..size |-> k]
    [] idx.tag = "min_max" ->
         [k \in 1..(Abs(idx.max_ - idx.min_) + 1) |->
            IF idx.min_ <= idx.max_ THEN idx.min_ + (k - 1) ELSE idx.min_ - (k - 1)]
    [] idx.tag = "uni" -> <<idx.n_>>

InRange(p, size) == p \in 1..size

\* index (from 1) of the first position of ps outside 1..size, 0 if none
FirstBad(ps, size) ==
  IF \A n \in 1..Len(ps) : InRange(ps[n], size) THEN 0
  ELSE CHOOSE n \in 1..Len(ps) :
         /\ ~InRange(ps[n], size)
         /\ \A k \in 1..(n - 1) : InRange(ps[k], size)

\* index of the last of the first k positions of ps equal to p, 0 if none
LastAt(ps, k, p) ==
  IF \A n \in 1..k : ps[n] # p THEN 0
  ELSE CHOOSE n \in 1..k : ps[n] = p /\ \A j \in (n + 1)..k : ps[j] # p

\* C2: a single-index assignment with a valid index succeeds, stores y in
\* the addressed element and changes nothing else, size included: on a
\* vector with [uni n], and on a matrix with [uni m, uni n].
C2_UniRoundTrip ==
  /\ (call.op = "vec[uni]" /\ InRange(call.idxs[1].n_, Len(call.pre))) =>
       /\ call.st = "ok"
       /\ Len(tgt.v) = Len(call.pre)
       /\ \A k \in 1..Len(call.pre) :
            tgt.v[k] = IF k = call.idxs[1].n_ THEN call.y ELSE call.pre[k]
  /\ (/\ call.op = "mat[uni,uni]"
      /\ InRange(call.idxs[1].n_, call.pre.r)
      /\ InRange(call.idxs[2].n_, call.pre.c)) =>
       /\ call.st = "ok"
       /\ tgt.v.r = call.pre.r
       /\ tgt.v.c = call.pre.c
       /\ DOMAIN tgt.v.m = DOMAIN call.pre.m
       /\ \A p \in DOMAIN call.pre.m :
            tgt.v.m[p] = IF p = <<call.idxs[1].n_, call.idxs[2].n_>>
                         THEN call.y ELSE call.pre.m[p]

\* the 3 x 3 matrix after the scalar was assigned to its cell (2, 2)
C2_Witness ==
  /\ call.op = "mat[uni,uni]"
  /\ call.pre.r = 3 /\ call.pre.c = 3
  /\ call.idxs = <<index_uni(2), index_uni(2)>>
  /\ call.st = "ok"
  /\ tgt.v.m[<<2, 2>>] = Scalar

\* the value has the shape the single-index overload expects
FitsSingle ==
  CASE call.op = "mat[uni]" -> Len(call.y) = call.pre.c
    [] call.op = "mat[uni,omni]" -> Len(call.y) = call.pre.c
    [] call.op = "mat[omni,uni]" -> Len(call.y) = call.pre.r
    [] OTHER -> TRUE

\* the single index of the call is outside the dimension it addresses
SingleOutOfRange ==
  CASE call.op = "vec[uni]" -> ~InRange(call.idxs[1].n_, Len(call.pre))
    [] call.op = "mat[uni]" -> ~InRange(call.idxs[1].n_, call.pre.r)
    [] call.op = "mat[uni,omni]" -> ~InRange(call.idxs[1].n_, call.pre.r)
    [] call.op = "mat[omni,uni]" -> ~InRange(call.idxs[2].n_, call.pre.c)
    [] call.op = "mat[uni,uni]" ->
         \/ ~InRange(call.idxs[1].n_, call.pre.r)
         \/ ~InRange(call.idxs[2].n_, call.pre.c)
    [] call.op \in {"arr[uni]", "arr[uni,uni]", "arr[uni,multi]"} ->
         ~InRange(call.idxs[1].n_, Len(call.pre))
    [] OTHER -> FALSE

\* C3: in every single-index form, an index that is 0, negative or beyond
\* the size of its dimension makes assign fail with OutOfRange and leaves
\* the target unmodified (the value being of the shape the form expects).
C3_SingleOutOfRange ==
  (call.op # "none" /\ SingleOutOfRange /\ FitsSingle) =>
    /\ call.st = "OutOfRange"
    /\ tgt.v = call.pre

\* C4: vec[min_max] with min and max in [1, S] succeeds exactly when
\* length(y) = |max - min| + 1 and otherwise fails with SizeMismatch leaving
\* x unmodified; on success the k-th position of the sequence from min to
\* max holds y[k] and every element outside the range is unchanged.
C4_MinMaxVector ==
  (/\ call.op = "vec[min_max]"
   /\ InRange(call.idxs[1].min_, Len(call.pre))
   /\ InRange(call.idxs[1].max_, Len(call.pre))) =>
    LET ps == Positions(call.idxs[1], Len(call.pre))
    IN  /\ call.st = "ok" <=> Len(call.y) = Len(ps)
        /\ call.st # "ok" => call.st = "SizeMismatch" /\ tgt.v = call.pre
        /\ call.st = "ok" =>
             /\ Len(tgt.v) = Len(call.pre)
             /\ \A k \in 1..Len(ps) : tgt.v[ps[k]] = call.y[k]
             /\ \A q \in 1..Len(call.pre) :
                  (\A k \in 1..Len(ps) : ps[k] # q) => tgt.v[q] = call.pre[q]

\* the operations whose leading index is a multi or range index on a
\* vector or an array
LeadingMulti == {"vec[multi]", "arr[multi]", "arr[multi,uni]", "arr[multi,multi]"}

\* C5: on a vector and on an array, when the number of positions the
\* leading multi or range index resolves to differs from the length of the
\* value, assign fails with SizeMismatch and the target is unmodified.
C5_SizeMismatchFirst ==
  (/\ call.op \in LeadingMulti
   /\ Len(Positions(call.idxs[1], Len(call.pre))) # Len(call.y)) =>
    /\ call.st = "SizeMismatch"
    /\ tgt.v = call.pre

\* a mismatched multi-index assignment on a vector of 3 elements whose
\* first listed position is valid
C5_Witness ==
  /\ call.op = "vec[multi]"
  /\ call.idxs = <<index_multi(<<2, 3>>)>>
  /\ call.pre = VecOf(3)
  /\ Len(call.y) = 3
  /\ call.st = "SizeMismatch"

\* the multi-index forms
MultiOps ==
  {"vec[multi]", "mat[multi]", "mat[uni,multi]", "mat[multi,uni]",
   "mat[multi,multi]", "arr[multi]", "arr[multi,uni]", "arr[multi,multi]"}

\* the value of the call has the shape its multi-index form expects
MultiValueMatches ==
  CASE call.op = "vec[multi]" ->
         Len(call.y) = Len(Positions(call.idxs[1], Len(call.pre)))
    [] call.op = "mat[multi]" ->
         /\ call.y.r = Len(Positions(call.idxs[1], call.pre.r))
         /\ call.y.c = call.pre.c
    [] call.op = "mat[uni,multi]" ->
         Len(call.y) = Len(Positions(call.idxs[2], call.pre.c))
    [] call.op = "mat[multi,uni]" ->
         Len(call.y) = Len(Positions(call.idxs[1], call.pre.r))
    [] call.op = "mat[multi,multi]" ->
         /\ call.y.r = Len(Positions(call.idxs[1], call.pre.r))
         /\ call.y.c = Len(Positions(call.idxs[2], call.pre.c))
    [] call.op \in {"arr[multi]", "arr[multi,uni]"} ->
         Len(call.y) = Len(Positions(call.idxs[1], Len(call.pre)))
    [] call.op = "arr[multi,multi]" ->
         /\ Len(call.y) = Len(Positions(call.idxs[1], Len(call.pre)))
         /\ \A n \in 1..Len(call.y) : Len(call.y[n]) = Len(call.idxs[2].ns_)
    [] OTHER -> FALSE

\* some position listed by a multi index of the call is out of range
MultiOutOfRange ==
  CASE call.op = "vec[multi]" ->
         FirstBad(Positions(call.idxs[1], Len(call.pre)), Len(call.pre)) > 0
    [] call.op \in {"mat[multi]", "mat[multi,uni]"} ->
         FirstBad(Positions(call.idxs[1], call.pre.r), call.pre.r) > 0
    [] call.op = "mat[uni,multi]" ->
         FirstBad(Positions(call.idxs[2], call.pre.c), call.pre.c) > 0
    [] call.op = "mat[multi,multi]" ->
         \/ FirstBad(Positions(call.idxs[1], call.pre.r), call.pre.r) > 0
         \/ FirstBad(Positions(call.idxs[2], call.pre.c), call.pre.c) > 0
    [] call.op \in {"arr[multi]", "arr[multi,uni]", "arr[multi,multi]"} ->
         FirstBad(Positions(call.idxs[1], Len(call.pre)), Len(call.pre)) > 0
    [] OTHER -> FALSE

MatIs(hit(_), new(_)) ==
  /\ tgt.v.r = call.pre.r
  /\ tgt.v.c = call.pre.c
  /\ DOMAIN tgt.v.m = DOMAIN call.pre.m
  /\ \A p \in DOMAIN call.pre.m :
       tgt.v.m[p] = IF hit(p) THEN new(p) ELSE call.pre.m[p]

C6_Vec ==
  LET ps == Positions(call.idxs[1], Len(call.pre))
      b == FirstBad(ps, Len(call.pre))
  IN  /\ call.st = "OutOfRange"
      /\ Len(tgt.v) = Len(call.pre)
      /\ \A p \in 1..Len(call.pre) :
           LET l == LastAt(ps, b - 1, p)
           IN  tgt.v[p] = IF l > 0 THEN call.y[l] ELSE call.pre[p]

C6_MatMulti ==
  LET ps == Positions(call.idxs[1], call.pre.r)
      b == FirstBad(ps, call.pre.r)
      hit(p) == LastAt(ps, b - 1, p[1]) > 0
      new(p) == call.y.m[<<LastAt(ps, b - 1, p[1]), p[2]>>]
  IN  call.st = "OutOfRange" /\ MatIs(hit, new)

C6_MatUniMulti ==
  LET m == call.idxs[1].n_
      cs == Positions(call.idxs[2], call.pre.c)
      b == FirstBad(cs, call.pre.c)
      hit(p) == InRange(m, call.pre.r) /\ p[1] = m /\ LastAt(cs, b - 1, p[2]) > 0
      new(p) == call.y[LastAt(cs, b - 1, p[2])]
  IN  call.st = "OutOfRange" /\ MatIs(hit, new)

C6_MatMultiUni ==
  LET n == call.idxs[2].n_
      rs == Positions(call.idxs[1], call.pre.r)
      b == FirstBad(rs, call.pre.r)
      hit(p) == InRange(n, call.pre.c) /\ p[2] = n /\ LastAt(rs, b - 1, p[1]) > 0
      new(p) == call.y[LastAt(rs, b - 1, p[1])]
  IN  call.st = "OutOfRange" /\ MatIs(hit, new)

\* columns are the outer loop: a bad first column stops before any write, a
\* bad row stops the first column at that row, a bad later column stops
\* after the columns before it were written in full
C6_MatMultiMulti ==
  LET rs == Positions(call.idxs[1], call.pre.r)
      cs == Positions(call.idxs[2], call.pre.c)
      rb == FirstBad(rs, call.pre.r)
      cb == FirstBad(cs, call.pre.c)
      none(p) == FALSE
      hitRow(p) == p[2] = cs[1] /\ LastAt(rs, rb - 1, p[1]) > 0
      newRow(p) == call.y.m[<<LastAt(rs, rb - 1, p[1]), 1>>]
      hitCol(p) == LastAt(rs, Len(rs), p[1]) > 0 /\ LastAt(cs, cb - 1, p[2]) > 0
      newCol(p) == call.y.m[<<LastAt(rs, Len(rs), p[1]), LastAt(cs, cb - 1, p[2])>>]
  IN  IF Len(cs) = 0 THEN call.st = "ok" /\ tgt.v = call.pre
      ELSE /\ call.st = "OutOfRange"
           /\ IF cb = 1 THEN tgt.v = call.pre
              ELSE IF rb > 0 THEN MatIs(hitRow, newRow)
              ELSE MatIs(hitCol, newCol)

\* the tail index list of an array call addresses every row validly
ArrTailValid ==
  CASE call.op = "arr[multi]" -> TRUE
    [] call.op = "arr[multi,uni]" -> InRange(call.idxs[2].n_, 2)
    [] call.op = "arr[multi,multi]" ->
         \A k \in 1..Len(call.idxs[2].ns_) : InRange(call.idxs[2].ns_[k], 2)
    [] OTHER -> FALSE

C6_Arr ==
  LET ps == Positions(call.idxs[1], Len(call.pre))
      b == FirstBad(ps, Len(call.pre))
      js == IF call.op = "arr[multi,multi]" THEN call.idxs[2].ns_ ELSE <<>>
  IN  /\ call.st = "OutOfRange"
      /\ Len(tgt.v) = Len(call.pre)
      /\ \A p \in 1..Len(call.pre) :
           LET l == LastAt(ps, b - 1, p)
           IN  IF l = 0 THEN tgt.v[p] = call.pre[p]
               ELSE CASE call.op = "arr[multi]" -> tgt.v[p] = call.y[l]
                      [] call.op = "arr[multi,uni]" ->
                           tgt.v[p] = [call.pre[p] EXCEPT ![call.idxs[2].n_] = call.y[l]]
                      [] call.op = "arr[multi,multi]" ->
                           /\ Len(tgt.v[p]) = Len(call.pre[p])
                           /\ \A q \in 1..Len(call.pre[p]) :
                                LET j == LastAt(js, Len(js), q)
                                IN  tgt.v[p][q] =
                                      IF j > 0 THEN call.y[l][j] ELSE call.pre[p][q]

RangeIn(idx, size) == InRange(idx.min_, size) /\ InRange(idx.max_, size)

\* C7: mat[min_max, min_max] with both ranges within bounds and y of shape
\* (|rmax - rmin| + 1) x (|cmax - cmin| + 1): x[r_i, c_j] = y[i, j] where
\* r_i (c_j) is the i-th row (j-th column) of the sequence running from min
\* to max in the index's direction; every cell outside is unchanged.
C7_BlockOrientation ==
  (/\ call.op = "mat[min_max,min_max]"
   /\ RangeIn(call.idxs[1], call.pre.r)
   /\ RangeIn(call.idxs[2], call.pre.c)
   /\ call.y.r = Abs(call.idxs[1].max_ - call.idxs[1].min_) + 1
   /\ call.y.c = Abs(call.idxs[2].max_ - call.idxs[2].min_) + 1) =>
    LET rs == Positions(call.idxs[1], call.pre.r)
        cs == Positions(call.idxs[2], call.pre.c)
        hit(p) == LastAt(rs, Len(rs), p[1]) > 0 /\ LastAt(cs, Len(cs), p[2]) > 0
        new(p) == call.y.m[<<LastAt(rs, Len(rs), p[1]), LastAt(cs, Len(cs), p[2])>>]
    IN  /\ call.st = "ok"
        /\ ~call.ub
        /\ MatIs(hit, new)

\* rows reversed (3 down to 2), columns ascending (1 to 2) on a 3 x 3 matrix
C7_Witness ==
  /\ call.op = "mat[min_max,min_max]"
  /\ call.pre.r = 3 /\ call.pre.c = 3
  /\ call.idxs = <<index_min_max(3, 2), index_min_max(1, 2)>>
  /\ call.st = "ok"
  /\ tgt.v.m[<<3, 1>>] = 110
  /\ tgt.v.m[<<2, 2>>] = 220

\* C8: mat[min_max, min_max] with a row or column bound outside the matrix
\* (the value having the shape of the declared ranges) fails with
\* OutOfRange, leaves the matrix unmodified and accesses no cell outside it.
C8_BlockOutOfRange ==
  (/\ call.op = "mat[min_max,min_max]"
   /\ ~(RangeIn(call.idxs[1], call.pre.r) /\ RangeIn(call.idxs[2], call.pre.c))
   /\ call.y.r = Abs(call.idxs[1].max_ - call.idxs[1].min_) + 1
   /\ call.y.c = Abs(call.idxs[2].max_ - call.idxs[2].min_) + 1) =>
    /\ call.st = "OutOfRange"
    /\ tgt.v = call.pre
    /\ ~call.ub


(* ======================= mpi_auto_adaptation =========================== *)
(* One estimator per chain process.  The chains of params.local run the    *)
(* estimator's code; every other chain only takes part in the collectives. *)
(* A draw is one parameter vector (a whole row of Y_); the estimator moves *)
(* draws without inspecting them, so the draw chain c posts in its g-th    *)
(* collective is the number DrawOf(c, g), distinct from every other draw.  *)
(* The floating-point results of learn_metric (the condition estimates,    *)
(* an exception of the model's log density) are inputs of the step.        *)

\* number of chains of the modelled runs
Chains == 2
\* num_iterations of the modelled runs
MaxIter == 5
\* largest window_size of the modelled runs
MaxWindow == 3
\* largest init_buffer of the modelled runs
MaxInit == 3
\* largest condition estimate (the estimates are compared, never computed)
MaxCond == 1

\* capacity of last_qs_
HistoryCap == 5
\* fewest draws a selection pass accepts
MinDraws == 10
\* smallest test segment of a selection pass
MinTest == 5

\* content of storage no draw was written to
Unset == 0
\* content read from outside the draws buffers
Garbage == -1

Max2(a, b) == IF a >= b THEN a ELSE b

DrawOf(c, g) == 10 * (g + 1) + c

Ranks == 0 .. params.num_chains - 1
Rows == 0 .. params.num_chains * params.num_iterations - 1

NullReq == [active |-> FALSE, g |-> 0]
IdleFrame == [caller |-> "none", win |-> 0, finished |-> 0]
NoLm == [win |-> 0, first_draw |-> 0, num_draws |-> 0, Ntest |-> 0,
         nq |-> 0, c_dense |-> 0, c_diag |-> 0, use_dense |-> FALSE,
         exc |-> "none", propagated |-> FALSE,
         Ytrain |-> [start |-> 0, rows |-> 0],
         Ytest |-> [start |-> 0, rows |-> 0]]
CondVals == 0 .. MaxCond
\* what the model's log density throws while the Hessian is probed
ModelExc == {"none", "std::domain_error"}

\* the ranks whose estimator is modelled in SpecEst
Modelled == {0}
\* the ranks of SpecPair
Pair == {0, 1}

EstConfigs ==
  { [num_chains |-> Chains, num_iterations |-> MaxIter, window_size |-> w,
     init_buffer |-> b, local |-> Modelled, posts |-> MaxPosts] :
       w \in 2 .. MaxWindow, b \in 0 .. 1 }

\* constructions whose init_buffer goes up to and past the window
BufferConfigs ==
  { [num_chains |-> Chains, num_iterations |-> MaxIter, window_size |-> 2,
     init_buffer |-> b, local |-> Modelled, posts |-> MaxPosts] :
       b \in 0 .. MaxInit }

\* two chains, both modelled in full
PairConfigs ==
  { [num_chains |-> Cardinality(Pair), num_iterations |-> MaxPairPosts,
     window_size |-> 2, init_buffer |-> 0, local |-> Pair,
     posts |-> MaxPairPosts] }

\* the state the constructor leaves, for a configuration of cfgs
Construct(cfgs) ==
  /\ tgt = [kind |-> "none", v |-> <<>>]
  /\ call = [op |-> "none"]
  /\ pm = NoPower
  /\ params \in cfgs
  /\ posted = [c \in Ranks |-> <<>>]
  /\ draw_req_counter_ = [p \in params.local |-> 0]
  /\ draws_collected_counter_ = [p \in params.local |-> 0]
  /\ reqs = [p \in params.local |-> [i \in 1 .. params.window_size |-> NullReq]]
  /\ draws = [p \in params.local |->
                [i \in 1 .. params.window_size |-> [c \in Ranks |-> Unset]]]
  /\ Y_ = [p \in params.local |-> [r \in Rows |-> Unset]]
  /\ last_qs_ = [p \in params.local |-> <<>>]
  /\ is_diagonal_ = [p \in params.local |-> FALSE]
  /\ covar = [p \in params.local |-> [kind |-> "caller", n |-> 0, cov |-> "caller"]]
  /\ pc = [p \in params.local |-> "idle"]
  /\ frame = [p \in params.local |-> IdleFrame]
  /\ ev = [p \in params.local |-> "none"]
  /\ entry = [p \in params.local |->
                [Y |-> [r \in Rows |-> Unset], D |-> 0, k |-> 0, base |-> 0,
                 reordered |-> FALSE]]
  /\ lm = [p \in params.local |-> NoLm]
  /\ ub = [p \in params.local |-> FALSE]

\* reset_req: the value reqs has after clear() and resize(window_size_)
reset_req == [i \in 1 .. params.window_size |-> NullReq]

\* the collective number g has been entered by every chain
AllPosted(g) == \A c \in Ranks : Len(posted[c]) > g

\* a chain that is not modelled in full enters its next collective
EnvPost ==
  \E c \in Ranks \ params.local :
    /\ Len(posted[c]) < params.posts
    /\ posted' = [posted EXCEPT ![c] = Append(@, DrawOf(c, Len(@)))]
    /\ UNCHANGED <<assignvars, pmvars, params, draw_req_counter_,
                   draws_collected_counter_, reqs, draws, Y_, last_qs_,
                   is_diagonal_, covar, pc, frame, ev, entry, lm, ub>>

\* last_qs_ after push_back(q) and the pop_front that keeps it short
push_history_mut(qs, q) ==
  LET pushed == Append(qs, q)
  IN  IF Len(pushed) > HistoryCap THEN SubSeq(pushed, 1, HistoryCap) ELSE pushed
push_history(qs, q) ==
  LET pushed == Append(qs, q)
  IN  IF Len(pushed) > HistoryCap THEN Tail(pushed) ELSE pushed

\* add_sample: slot draw_req_counter_ of draws and reqs is handed to
\* MPI_Iallgather.  At or past window_size_ the slot is outside both vectors:
\* the process dies, or the handle lands in the memory behind reqs.
add_sample ==
  \E p \in params.local :
    LET slot == draw_req_counter_[p]
        g == Len(posted[p])
        q == DrawOf(p, g)
        req == [active |-> TRUE, g |-> g]
    IN
    /\ pc[p] = "idle"
    /\ g < params.posts
    /\ \/ /\ slot < params.window_size
          /\ reqs' = [reqs EXCEPT ![p][slot + 1] = req]
          /\ posted' = [posted EXCEPT ![p] = Append(@, q)]
          /\ draw_req_counter_' = [draw_req_counter_ EXCEPT ![p] = @ + 1]
          /\ last_qs_' = [last_qs_ EXCEPT ![p] = push_history(@, q)]
          /\ ev' = [ev EXCEPT ![p] = "add_sample"]
          /\ UNCHANGED <<pc, ub>>
       \/ /\ slot >= params.window_size
          /\ reqs' = [reqs EXCEPT ![p] = Append(@, req)]
          /\ posted' = [posted EXCEPT ![p] = Append(@, q)]
          /\ draw_req_counter_' = [draw_req_counter_ EXCEPT ![p] = @ + 1]
          /\ last_qs_' = [last_qs_ EXCEPT ![p] = push_history(@, q)]
          /\ ev' = [ev EXCEPT ![p] = "add_sample"]
          /\ ub' = [ub EXCEPT ![p] = TRUE]
          /\ UNCHANGED pc
       \/ /\ slot >= params.window_size
          /\ pc' = [pc EXCEPT ![p] = "crashed"]
          /\ ub' = [ub EXCEPT ![p] = TRUE]
          /\ UNCHANGED <<reqs, posted, draw_req_counter_, last_qs_, ev>>
    /\ UNCHANGED <<assignvars, pmvars, params, draws_collected_counter_, draws, Y_,
                   is_diagonal_, covar, frame, entry, lm>>


(* ---------------------------- learn_metric ----------------------------- *)
\* a metric: dense or diagonal, the covariance it shrinks and over how
\* many draws
metric(kind, cov, n) == [kind |-> kind, n |-> n, cov |-> cov]

first_draw(win) ==
  params.num_chains
    * (Max2(win - 1, 0) * params.window_size
       + (IF win > 0 THEN 1 ELSE 0) * (params.window_size - params.init_buffer))

num_draws(win, D) == Max2(params.num_chains * D - first_draw(win), 0)

\* int(0.2 * n) for n >= 0, raised to the smallest test segment
Ntest_selection(n) == IF n \div 5 < MinTest THEN MinTest ELSE n \div 5

\* the comparison that ends the selection pass
select_dense_mut(c_dense, c_diag) == c_dense <= c_diag
select_dense(c_dense, c_diag) == c_dense < c_diag

\* the handler of the try block takes every std::exception
caught(e) == e \in {"std::runtime_error", "std::domain_error"}

\* what the handler emits
catch_fallback_mut(n) == [covar |-> metric("dense", "zero", n), is_diagonal |-> FALSE]
catch_fallback(n) == [covar |-> metric("diag", "zero", n), is_diagonal |-> TRUE]

\* the refinement pass: covar = dense, then the candidate of the chosen type
refinement(n, use_dense) ==
  IF use_dense
    THEN [covar |-> metric("dense", "train", n), is_diagonal |-> FALSE]
    ELSE [covar |-> metric("diag", "train", n), is_diagonal |-> TRUE]

\* the blocks of Y_ the selection pass takes its two covariances from
Ytrain(first, n, Ntest) == [start |-> first, rows |-> n - Ntest]
Ytest(first, n, Ntest) == [start |-> first + n - Ntest, rows |-> Ntest]

\* the selection pass over n draws with nq points in last_qs_; cd and cg
\* are the largest condition estimates the loop over last_qs_ finds and e is
\* what the log density throws in it
selection(n, nq, cd, cg, e) ==
  LET Ntest == Ntest_selection(n)
      c_dense == IF nq = 0 THEN 0 ELSE cd
      c_diag == IF nq = 0 THEN 0 ELSE cg
  IN  IF n < MinDraws
        THEN [exc |-> "std::runtime_error", assigned |-> FALSE, Ntest |-> Ntest,
              c_dense |-> 0, c_diag |-> 0, use_dense |-> FALSE]
      ELSE IF nq > 0 /\ e # "none"
        THEN [exc |-> e, assigned |-> TRUE, Ntest |-> Ntest,
              c_dense |-> 0, c_diag |-> 0, use_dense |-> FALSE]
      ELSE [exc |-> "none", assigned |-> TRUE, Ntest |-> Ntest,
            c_dense |-> c_dense, c_diag |-> c_diag,
            use_dense |-> select_dense(c_dense, c_diag)]

\* the part of learn_metric after collect_draws, with D draws collected per
\* chain: the metric written to covar, is_diagonal_, and what was computed
learn_metric_passes(win, D, nq, cd, cg, e, covar0, diag0) ==
  LET n == num_draws(win, D)
      sel == selection(n, nq, cd, cg, e)
      out == IF sel.exc = "none" THEN refinement(n, sel.use_dense)
             ELSE IF caught(sel.exc) THEN catch_fallback(n)
             ELSE [covar |-> IF sel.assigned
                               THEN metric("dense", "train", n - sel.Ntest)
                               ELSE covar0,
                   is_diagonal |-> diag0]
  IN  [covar |-> out.covar, is_diagonal |-> out.is_diagonal,
       lm |-> [win |-> win, first_draw |-> first_draw(win), num_draws |-> n,
               Ntest |-> sel.Ntest, nq |-> nq, c_dense |-> sel.c_dense,
               c_diag |-> sel.c_diag, use_dense |-> sel.use_dense,
               exc |-> sel.exc,
               propagated |-> sel.exc # "none" /\ ~caught(sel.exc),
               Ytrain |-> IF sel.assigned THEN Ytrain(first_draw(win), n, sel.Ntest)
                          ELSE NoLm.Ytrain,
               Ytest |-> IF sel.assigned THEN Ytest(first_draw(win), n, sel.Ntest)
                         ELSE NoLm.Ytest]]

(* ---------------------------- collect_draws ---------------------------- *)
\* the row of Y_ the draw of a chain goes to
scatter_row_mut(D, index, chain) ==
  (D + index) * params.num_chains + (params.num_chains - 1 - chain)
scatter_row(D, index, chain) == (D + index) * params.num_chains + chain

\* Y after the loop over the chains has written the gathered draws of the
\* request at index; rows outside Y are not part of it
scatter_mut(Y, D, index, gathered) ==
  [r \in Rows |->
     LET writers == {c \in Ranks : scatter_row(D, 0, c) = r}
     IN  IF writers = {} THEN Y[r]
         ELSE gathered[CHOOSE c \in writers : \A d \in writers : d <= c]]
scatter(Y, D, index, gathered) ==
  [r \in Rows |->
     LET writers == {c \in Ranks : scatter_row(D, index, c) = r}
     IN  IF writers = {} THEN Y[r]
         ELSE gathered[CHOOSE c \in writers : \A d \in writers : d <= c]]

\* the results the passes can get from the log density: none is asked for
\* when the selection pass stops at once or last_qs_ is empty
PassInputs(win, D, p, S) ==
  IF num_draws(win, D) >= MinDraws /\ Len(last_qs_[p]) > 0
    THEN S ELSE {CHOOSE x \in S : TRUE}

\* the loop of collect_draws ends: not (finished < draw_req_counter_)
loop_done_mut(finished, k) == finished + 1 >= k
loop_done(finished, k) == finished >= k

\* draws_collected_counter_ += draw_req_counter_
advance_counter_mut(D, k) == k
advance_counter(D, k) == D + k

\* the rows of Y_ the passes read: Y_.block(first_draw, 0, num_draws, ..)
\* and the two blocks of the selection pass that make it up
block_rows(l) == l.first_draw .. l.first_draw + l.num_draws - 1

\* what reading them can do; a selection pass that throws for want of
\* draws reads nothing
block_outcomes(l) ==
  IF l.num_draws < MinDraws \/ block_rows(l) \subseteq Rows
    THEN {"ok"}
    ELSE {"crash", "overrun"}

\* the end of collect_draws, and of learn_metric when it is the caller
\* overrun tells that the call has written behind Y_.  The blocks of Y_
\* the selection pass reads may lie outside Y_: the process dies there, or
\* the passes go on with what they read.
Return(p, caller, win, overrun) ==
  LET D == advance_counter(draws_collected_counter_[p], draw_req_counter_[p])
  IN
  /\ draws_collected_counter_' = [draws_collected_counter_ EXCEPT ![p] = D]
  /\ draw_req_counter_' = [draw_req_counter_ EXCEPT ![p] = 0]
  /\ reqs' = [reqs EXCEPT ![p] = reset_req]
  /\ frame' = [frame EXCEPT ![p] = IdleFrame]
  /\ IF caller = "learn_metric"
       THEN \E cd \in PassInputs(win, D, p, CondVals),
               cg \in PassInputs(win, D, p, CondVals),
               e \in PassInputs(win, D, p, ModelExc) :
              LET r == learn_metric_passes(win, D, Len(last_qs_[p]), cd, cg, e,
                                           covar[p], is_diagonal_[p])
              IN  \E fate \in block_outcomes(r.lm) :
                    IF fate = "crash"
                      THEN /\ pc' = [pc EXCEPT ![p] = "crashed"]
                           /\ ub' = [ub EXCEPT ![p] = TRUE]
                           /\ UNCHANGED <<ev, covar, is_diagonal_, lm>>
                      ELSE /\ ev' = [ev EXCEPT ![p] = caller]
                           /\ covar' = [covar EXCEPT ![p] = r.covar]
                           /\ is_diagonal_' =
                                [is_diagonal_ EXCEPT ![p] = r.is_diagonal]
                           /\ lm' = [lm EXCEPT ![p] = r.lm]
                           /\ ub' = [ub EXCEPT ![p] =
                                       @ \/ overrun \/ fate = "overrun"]
                           /\ pc' = [pc EXCEPT ![p] =
                                       IF r.lm.propagated THEN "terminated"
                                       ELSE "idle"]
       ELSE /\ pc' = [pc EXCEPT ![p] = "idle"]
            /\ ev' = [ev EXCEPT ![p] = caller]
            /\ ub' = [ub EXCEPT ![p] = @ \/ overrun]
            /\ UNCHANGED <<covar, is_diagonal_, lm>>

\* a call enters collect_draws: with no request outstanding the loop is
\* skipped, otherwise the process polls
Enter(p, caller, win) ==
  /\ pc[p] = "idle"
  /\ entry' = [entry EXCEPT ![p] =
                 [Y |-> Y_[p], D |-> draws_collected_counter_[p],
                  k |-> draw_req_counter_[p],
                  base |-> Len(posted[p]) - draw_req_counter_[p],
                  reordered |-> FALSE]]
  /\ IF loop_done(0, draw_req_counter_[p])
       THEN Return(p, caller, win, FALSE)
       ELSE /\ pc' = [pc EXCEPT ![p] = "polling"]
            /\ frame' = [frame EXCEPT ![p] =
                           [caller |-> caller, win |-> win, finished |-> 0]]
            /\ UNCHANGED <<draws_collected_counter_, draw_req_counter_, reqs,
                           ev, covar, is_diagonal_, lm, ub>>
  /\ UNCHANGED <<assignvars, pmvars, params, posted, draws, Y_, last_qs_>>

collect_draws == \E p \in params.local : Enter(p, "collect_draws", 0)

learn_metric == \E p \in params.local, win \in 0 .. MaxWin : Enter(p, "learn_metric", win)

\* one MPI_Testany of the loop that reports a completed request (a call that
\* reports none changes nothing): any outstanding request whose collective
\* every chain has entered may be the one.  Its draws go to Y_; rows past the
\* end of Y_ kill the process or are written behind Y_.
MPI_Testany ==
  \E p \in params.local :
    /\ pc[p] = "polling"
    /\ \E i \in 1 .. Len(reqs[p]) :
         LET index == i - 1
             g == reqs[p][i].g
             D == draws_collected_counter_[p]
             inbuf == i <= params.window_size
             gathered == IF inbuf THEN [c \in Ranks |-> posted[c][g + 1]]
                         ELSE [c \in Ranks |-> Garbage]
             inY == \A c \in Ranks : scatter_row(D, index, c) \in Rows
             last == loop_done(frame[p].finished + 1, draw_req_counter_[p])
             overtakes == \E j \in 1 .. index : reqs[p][j].active
             Go(overrun) ==
                   /\ draws' = IF inbuf THEN [draws EXCEPT ![p][i] = gathered]
                               ELSE draws
                   /\ Y_' = [Y_ EXCEPT ![p] = scatter(@, D, index, gathered)]
                   /\ entry' = [entry EXCEPT ![p].reordered = @ \/ overtakes]
                   /\ IF last
                        THEN Return(p, frame[p].caller, frame[p].win, overrun)
                        ELSE /\ frame' = [frame EXCEPT ![p].finished = @ + 1]
                             /\ reqs' = [reqs EXCEPT ![p][i] = NullReq]
                             /\ ub' = [ub EXCEPT ![p] = @ \/ overrun]
                             /\ UNCHANGED <<draws_collected_counter_,
                                            draw_req_counter_, pc, ev, covar,
                                            is_diagonal_, lm>>
         IN
         /\ i <= draw_req_counter_[p]
         /\ reqs[p][i].active
         /\ AllPosted(g)
         /\ \/ /\ inY
               /\ Go(FALSE)
            \/ /\ ~inY
               /\ Go(TRUE)
            \/ /\ ~inY
               /\ pc' = [pc EXCEPT ![p] = "crashed"]
               /\ ub' = [ub EXCEPT ![p] = TRUE]
               /\ UNCHANGED <<draws, Y_, entry, frame, reqs,
                              draws_collected_counter_, draw_req_counter_, ev,
                              covar, is_diagonal_, lm>>
    /\ UNCHANGED <<assignvars, pmvars, params, posted, last_qs_>>

InitEst == Construct(EstConfigs)

NextEst ==
  \/ add_sample
  \/ EnvPost
  \/ collect_draws
  \/ learn_metric
  \/ MPI_Testany

SpecEst == InitEst /\ [][NextEst]_vars

\* the estimator under every init_buffer
InitEstBuffer == Construct(BufferConfigs)

SpecEstBuffer == InitEstBuffer /\ [][NextEst]_vars

\* two estimators of one group, adding and collecting draws
InitPair == Construct(PairConfigs)

NextPair ==
  \/ add_sample
  \/ collect_draws
  \/ MPI_Testany

SpecPair == InitPair /\ [][NextPair]_vars

\* the polling loop keeps calling MPI_Testany, which reports a completed
\* request sooner or later, and the other chains go on to their collectives
SpecEstLive ==
  SpecEst /\ WF_vars(MPI_Testany) /\ WF_vars(EnvPost)


(* ========================= claims on the estimator ===================== *)
\* the call that process p made last has returned and no other was entered
Returned(p, callers) == pc[p] = "idle" /\ ev[p] \in callers

\* the rows of Y_ a collection of k draws entered with D collected draws owns
Block(D, k) == {r \in Rows : D * params.num_chains <= r
                             /\ r < (D + k) * params.num_chains}

\* C1: when collect_draws returns after k outstanding requests (1 <= k <=
\* window_size) were entered with D draws collected, then whatever the order
\* in which the requests completed, row (D + s) * num_chains + c of Y_ holds
\* the draw chain c submitted in slot s, for every slot s < k and chain c,
\* and every other row of Y_ is as it was when the call was entered.
C1_CollectScatter ==
  \A p \in params.local :
    LET D == entry[p].D
        k == entry[p].k
    IN  ( /\ Returned(p, {"collect_draws", "learn_metric"})
          /\ ~ub[p]
          /\ 1 <= k /\ k <= params.window_size
          /\ D + k <= params.num_iterations )
        => \A r \in Rows :
             Y_[p][r] = IF r \in Block(D, k)
                          THEN posted[r % params.num_chains]
                                     [entry[p].base + (r \div params.num_chains - D) + 1]
                          ELSE entry[p].Y[r]

\* a full window was collected behind earlier draws, and a request was
\* reported complete before one in a lower slot
C1_Witness ==
  \E p \in params.local :
    /\ Returned(p, {"collect_draws"})
    /\ ~ub[p]
    /\ entry[p].k = params.window_size
    /\ entry[p].D > 0
    /\ entry[p].D + entry[p].k <= params.num_iterations
    /\ entry[p].reordered

\* C9: a learn_metric call that finds fewer than 10 draws returns normally
\* (no exception leaves it), emits a diagonal metric and leaves is_diagonal_
\* true.
C9_FewDrawsDiagonal ==
  \A p \in params.local :
    (ev[p] = "learn_metric" /\ lm[p].num_draws < 10 /\ ~ub[p])
      => /\ pc[p] # "terminated"
         /\ ~lm[p].propagated
         /\ covar[p].kind = "diag"
         /\ is_diagonal_[p]

\* learn_metric has returned from a window holding some draws, but fewer
\* than 10
C9_Witness ==
  \E p \in params.local :
    /\ Returned(p, {"learn_metric"})
    /\ ~ub[p]
    /\ lm[p].num_draws > 0 /\ lm[p].num_draws < 10
    /\ lm[p].exc = "std::runtime_error"
    /\ is_diagonal_[p]

ReturnsNow(p) ==
  \/ pc[p] = "polling" /\ frame'[p] = IdleFrame
  \/ /\ pc[p] = "idle" /\ pc'[p] # "polling"
     /\ \E caller \in {"collect_draws", "learn_metric"}, win \in 0 .. MaxWin :
          Enter(p, caller, win)

\* C11: in every step draws_collected_counter_ stays or grows; a step that
\* returns from collect_draws raises it by the number of add_sample calls
\* made since the previous collect_draws (the calls of the process not yet
\* counted in it), and leaves draw_req_counter_ at 0 and reqs with
\* window_size null requests.
C11_CounterAccumulates ==
  [][\A p \in params.local :
       /\ draws_collected_counter_'[p] >= draws_collected_counter_[p]
       /\ ReturnsNow(p) =>
            /\ draws_collected_counter_'[p]
                 = draws_collected_counter_[p]
                     + (Len(posted[p]) - draws_collected_counter_[p])
            /\ draw_req_counter_'[p] = 0
            /\ Len(reqs'[p]) = params.window_size
            /\ \A i \in 1 .. Len(reqs'[p]) : ~reqs'[p][i].active
       /\ ~ReturnsNow(p) =>
            draws_collected_counter_'[p] = draws_collected_counter_[p]]_vars

\* a second collection of at least two draws has returned
C11_Witness ==
  \E p \in params.local :
    /\ Returned(p, {"collect_draws", "learn_metric"})
    /\ entry[p].D >= 1 /\ entry[p].k >= 2
    /\ draws_collected_counter_[p] = entry[p].D + entry[p].k
    /\ draw_req_counter_[p] = 0


\* the last n elements of a sequence
LastN(q, n) == SubSeq(q, Len(q) - n + 1, Len(q))

\* C12: last_qs_ holds at most 5 draws, and they are the last min(5, N)
\* draws passed to add_sample, in the order they were passed, N being the
\* number of add_sample calls so far.
C12_HistoryIsLastFive ==
  \A p \in params.local :
    /\ Len(last_qs_[p]) <= 5
    /\ last_qs_[p] = LastN(posted[p], Min2(5, Len(posted[p])))

\* a sixth draw was passed and evicted the first
C12_Witness ==
  \E p \in params.local :
    /\ ~ub[p]
    /\ Len(posted[p]) >= 6
    /\ Len(last_qs_[p]) = 5
    /\ last_qs_[p][1] = posted[p][Len(posted[p]) - 4]


\* the collectives of the requests the running (or last) collect_draws of p
\* was entered with
Window(p) == entry[p].base .. entry[p].base + entry[p].k - 1

\* the call p is in was entered within the capacity of the buffers
WithinCapacity(p) ==
  /\ ~ub[p]
  /\ entry[p].k <= params.window_size
  /\ entry[p].D + entry[p].k <= params.num_iterations

\* C13: collect_draws returns only when every request of the window is
\* complete (so it never returns if one never completes), it has then
\* counted each request once (finished is the number of requests reported,
\* each reported once), and if the requests all complete it does return.
C13_CollectBlocks ==
  /\ [](\A p \in Modelled :
          pc[p] = "polling" =>
            /\ frame[p].finished < draw_req_counter_[p]
            /\ frame[p].finished
                 = Cardinality({i \in 1 .. draw_req_counter_[p] : ~reqs[p][i].active}))
  /\ [][\A p \in Modelled :
          ReturnsNow(p) =>
            /\ \A g \in entry'[p].base .. entry'[p].base + entry'[p].k - 1 :
                 AllPosted(g)
            /\ pc[p] = "polling" =>
                 frame[p].finished + 1 = draw_req_counter_[p]]_vars
  /\ \A p \in Modelled :
       (pc[p] = "polling" /\ WithinCapacity(p))
         ~> Returned(p, {"collect_draws", "learn_metric"})

\* collect_draws has counted a request and waits for one whose collective
\* another chain has not entered
C13_Witness ==
  \E p \in params.local :
    /\ pc[p] = "polling"
    /\ WithinCapacity(p)
    /\ frame[p].finished >= 1
    /\ \E g \in Window(p) : ~AllPosted(g)


(* ========================= internal::power_method ====================== *)
(* The operator f and the vectors are left out: what the loop sees of them *)
(* is the Rayleigh quotient new_eval of each iteration, so the run is      *)
(* driven by the sequence ests of those quotients.  A quotient is a number *)
(* or NaN; the tolerance is counted in halves.                             *)

\* largest iteration cap handed to power_method
MaxCap == 3
\* largest Rayleigh quotient
MaxEst == 2
\* largest tolerance, in halves
MaxTol == 2

NaN == [nan |-> TRUE, v |-> 0]
Num(v) == [nan |-> FALSE, v |-> v]
EstVals == {NaN} \cup {Num(v) : v \in -1 .. MaxEst}

\* std::abs(new_eval - eval) <= tol * std::abs(eval), false on NaN
within_tol(new_eval, eval, tol) ==
  /\ ~new_eval.nan /\ ~eval.nan
  /\ 2 * Abs(new_eval.v - eval.v) <= tol * Abs(eval.v)

\* i == max_iterations - 1
at_cap_mut(i, max_iterations) == i = max_iterations
at_cap(i, max_iterations) == i = max_iterations - 1

InitPower ==
  /\ tgt = [kind |-> "none", v |-> <<>>]
  /\ call = [op |-> "none"]
  /\ NoEstimator
  /\ \E cap \in 0 .. MaxCap, tol \in 0 .. MaxTol :
       \E ests \in [1 .. Max2(cap, 1) -> EstVals] :
         pm = [pc |-> "call", cap |-> cap, tol |-> tol, ests |-> ests,
               max_iterations |-> cap, i |-> 0, eval |-> Num(0),
               applied |-> 0, iterations |-> 0]

\* the lines before the loop: eval = 0.0, Av = f(v), i = 0
power_method_enter ==
  /\ pm.pc = "call"
  /\ pm' = [pm EXCEPT !.pc = "loop", !.applied = 1]
  /\ UNCHANGED <<assignvars, mpivars>>

\* one evaluation of the loop condition and, if it holds, of the body
power_method_iterate ==
  /\ pm.pc = "loop"
  /\ IF pm.i < pm.max_iterations
       THEN LET new_eval == pm.ests[pm.i + 1]
            IN  IF at_cap(pm.i, pm.max_iterations)
                   \/ within_tol(new_eval, pm.eval, pm.tol)
                  THEN pm' = [pm EXCEPT !.pc = "done", !.eval = new_eval,
                                        !.max_iterations = pm.i + 1,
                                        !.iterations = @ + 1]
                  ELSE pm' = [pm EXCEPT !.eval = new_eval, !.i = @ + 1,
                                        !.applied = @ + 1,
                                        !.iterations = @ + 1]
       ELSE pm' = [pm EXCEPT !.pc = "done"]
  /\ UNCHANGED <<assignvars, mpivars>>

NextPower ==
  \/ power_method_enter
  \/ power_method_iterate

\* a call that was entered runs on
SpecPower == InitPower /\ [][NextPower]_vars /\ WF_vars(NextPower)

(* ------------------------- claim on power_method ----------------------- *)
\* the estimate before iteration i (counted from 0): 0.0, then the quotient
\* of the iteration before
Previous(i) == IF i = 0 THEN Num(0) ELSE pm.ests[i]

\* the iterations that meet the tolerance
Converging ==
  {i \in 0 .. pm.cap - 1 :
     /\ ~pm.ests[i + 1].nan /\ ~Previous(i).nan
     /\ 2 * Abs(pm.ests[i + 1].v - Previous(i).v) <= pm.tol * Abs(Previous(i).v)}

\* the first of them, or the last iteration the cap allows
StopsAt ==
  IF Converging = {} THEN pm.cap - 1
  ELSE CHOOSE i \in Converging : \A j \in Converging : i <= j

C15_InitBufferExcluded ==
  \A p \in params.local :
    ev[p] = "learn_metric" =>
      /\ lm[p].first_draw >= 0
      /\ lm[p].num_draws >= 0
      /\ lm[p].num_draws >= 10 =>
           \A r \in block_rows(lm[p]) :
             r >= params.num_chains * params.init_buffer


\* the rows of a block of Y_
RowsOf(b) == b.start .. b.start + b.rows - 1

\* C16: a selection pass over num_draws >= 10 usable rows holds out the last
\* Ntest = max(floor(0.2 * num_draws), 5) of them and trains on the
\* num_draws - Ntest before them: both sets are non-empty and disjoint,
\* together they are the usable rows first_draw .. first_draw + num_draws - 1,
\* and each of these is a row collect_draws has filled, one of
\* 0 .. num_chains * draws_collected_counter_ - 1.
C16_TrainTestSplit ==
  \A p \in params.local :
    LET l == lm[p]
        usable == l.first_draw .. l.first_draw + l.num_draws - 1
    IN  (ev[p] = "learn_metric" /\ l.num_draws >= 10) =>
          /\ l.Ntest = Max2(l.num_draws \div 5, 5)
          /\ RowsOf(l.Ytest) = {r \in usable : r > l.first_draw + l.num_draws - 1 - l.Ntest}
          /\ RowsOf(l.Ytrain) = usable \ RowsOf(l.Ytest)
          /\ RowsOf(l.Ytrain) # {} /\ RowsOf(l.Ytest) # {}
          /\ RowsOf(l.Ytrain) \cap RowsOf(l.Ytest) = {}
          /\ \A r \in usable :
               0 <= r /\ r <= params.num_chains * draws_collected_counter_[p] - 1


(* ------------------- further claims on the assign overloads ------------ *)
\* the call wrote through the empty index list at the given depth
NilAt(depth) == call.op # "none" /\ tgt.kind = "arr" /\ Len(call.idxs) = depth

\* C17: an assign call with a non-empty index list, whatever its outcome,
\* leaves the size of a vector, the rows and columns of a matrix and the
\* length of an array at every level one of its indexes addresses as they
\* were; assign with the empty index list on an array makes it as long as
\* the value, each element equal to the value's.
C17_OnlyNilResizes ==
  /\ (call.op # "none" /\ tgt.kind = "vec") => Len(tgt.v) = Len(call.pre)
  /\ (call.op # "none" /\ tgt.kind = "mat") =>
       tgt.v.r = call.pre.r /\ tgt.v.c = call.pre.c
  /\ (call.op # "none" /\ tgt.kind = "arr" /\ Len(call.idxs) >= 1) =>
       Len(tgt.v) = Len(call.pre)
  /\ NilAt(2) => \A i \in 1..Len(tgt.v) : Len(tgt.v[i]) = Len(call.pre[i])
  /\ (NilAt(0) /\ call.st = "ok") =>
       /\ Len(tgt.v) = Len(call.y)
       /\ \A i \in 1..Len(call.y) : tgt.v[i] = call.y[i]
  /\ (NilAt(1) /\ call.st = "ok" /\ call.idxs[1].tag = "uni") =>
       /\ Len(tgt.v[call.idxs[1].n_]) = Len(call.y)
       /\ \A i \in 1..Len(call.y) : tgt.v[call.idxs[1].n_][i] = call.y[i]

\* an array of two rows was assigned three rows of three elements through
\* the empty index list
C17_Witness ==
  /\ NilAt(0)
  /\ call.st = "ok"
  /\ Len(call.pre) = 2
  /\ Len(tgt.v) = 3
  /\ Len(tgt.v[3]) = 3


\* C18: mat[multi, multi] <- y with every position in range writes
\* x[rowpos(i), colpos(j)] = y[i, j] column by column and, in a column, row
\* by row: a cell that several pairs name ends with the y[i, j] of the last
\* such column j and last such row i, and a cell none names is unchanged.
C18_MultiMultiLastWriter ==
  LET rs == Positions(call.idxs[1], call.pre.r)
      cs == Positions(call.idxs[2], call.pre.c)
      hit(p) == LastAt(rs, Len(rs), p[1]) > 0 /\ LastAt(cs, Len(cs), p[2]) > 0
      new(p) == call.y.m[<<LastAt(rs, Len(rs), p[1]), LastAt(cs, Len(cs), p[2])>>]
  IN  ( /\ call.op = "mat[multi,multi]"
        /\ call.y.r = Len(rs) /\ call.y.c = Len(cs)
        /\ FirstBad(rs, call.pre.r) = 0
        /\ FirstBad(cs, call.pre.c) = 0 )
      => (call.st = "ok" /\ ~call.ub /\ MatIs(hit, new))

\* the row list names row 1 twice and the column list column 2 twice: cell
\* (1, 2) ends with y[2, 2]
C18_Witness ==
  /\ call.op = "mat[multi,multi]"
  /\ call.st = "ok"
  /\ call.idxs[1] = index_multi(<<1, 1>>)
  /\ call.idxs[2] = index_multi(<<2, 2>>)
  /\ call.pre.r = 2
  /\ tgt.v.m[<<1, 2>>] = call.y.m[<<2, 2>>]


(* ----------------------- claims on the buffers ------------------------- *)
\* C19: whatever add_sample and collect_draws calls were made, no access
\* left a buffer: add_sample used a slot below window_size (so at most
\* window_size requests are outstanding and reqs keeps its length), and
\* collect_draws wrote only rows of Y_ below num_chains * num_iterations.
C19_BufferAccessInBounds ==
  \A p \in params.local :
    /\ ~ub[p]
    /\ pc[p] # "crashed"
    /\ draw_req_counter_[p] <= params.window_size
    /\ Len(reqs[p]) = params.window_size
    /\ pc[p] = "polling" =>
         \A i \in 1 .. Len(reqs[p]), c \in Ranks :
           ~reqs[p][i].active
             \/ scatter_row(draws_collected_counter_[p], i - 1, c) \in Rows


\* the rows of Y_ that processes p and q have both filled by collect_draws
FilledByBoth(p, q) ==
  {r \in Rows : r < params.num_chains
                      * Min2(draws_collected_counter_[p], draws_collected_counter_[q])}

\* this step is not one of process q: its estimator and its collectives are
\* as they were
Idle(q) ==
  /\ pc'[q] = pc[q]
  /\ frame'[q] = frame[q]
  /\ draw_req_counter_'[q] = draw_req_counter_[q]
  /\ draws_collected_counter_'[q] = draws_collected_counter_[q]
  /\ posted'[q] = posted[q]

\* C20: two processes of one group that add and collect the same draws per
\* window have, once both returned from collect_draws for a window, the
\* same Y_ in every row filled so far (the draw of each chain in its row),
\* whatever the interleaving of their calls and of the completions; and the
\* Y_ of a process changes only in a step of that process's collect_draws.
C20_SameYEverywhere ==
  /\ [](\A p \in Pair, q \in Pair :
          (~ub[p] /\ ~ub[q]) =>
            \A r \in FilledByBoth(p, q) :
              /\ Y_[p][r] = Y_[q][r]
              /\ Y_[p][r] = posted[r % params.num_chains][r \div params.num_chains + 1])
  /\ [][\A p \in Pair :
          Y_'[p] # Y_[p] =>
            /\ pc[p] = "polling"
            /\ \A q \in Pair \ {p} : Idle(q) /\ Y_'[q] = Y_[q]]_vars

\* both processes have returned from collecting their second window, one of
\* them having seen its requests complete out of order
C20_Witness ==
  /\ \A p \in Pair :
       /\ Returned(p, {"collect_draws"})
       /\ ~ub[p]
       /\ draws_collected_counter_[p] = MaxPairPosts
       /\ entry[p].k = params.window_size
  /\ \E p \in Pair : entry[p].reordered
  /\ Y_[0] = Y_[1]

====
